---- MODULE Spec2Model ----
(***************************************************************************)
(* Model of cpal's core layer (src/lib.rs): Voice, SamplesStream, Buffer,  *)
(* UnknownTypeBuffer and EventLoop, on top of the platform backend         *)
(* (cpal_impl).  The wrappers of src/lib.rs are translated from the code;  *)
(* the backend modules (null, alsa, wasapi, coreaudio) are not part of     *)
(* src/lib.rs, so the impl_* operators and the device steps follow the     *)
(* backend capability contract of the specification.                       *)
(***************************************************************************)
EXTENDS Integers, Sequences, FiniteSets, TLC

\* ------------------------------------------------------------------ bounds
MaxCycles == 2      \* fill cycles the device produces, over all voices
MaxWrites == 2      \* writes (deref_mut) counted per buffer
MaxPending == 2     \* fill cycles that may wait for delivery per voice
MaxBufLen == 2      \* samples the device buffer of a voice has room for

Voices == {1, 2}
Loops == {1, 2}
NoLoop == 0
NoVoice == 0
Tags == 1..MaxCycles

\* ------------------------------------------------------------------ formats
\* Format { channels, samples_rate, data_type }
FmtF32 == [channels |-> <<"FrontLeft", "FrontRight">>, samples_rate |-> 44100,
           data_type |-> "F32"]
FmtI16 == [channels |-> <<"FrontCenter">>, samples_rate |-> 48000,
           data_type |-> "I16"]
FmtU16 == [channels |-> <<"FrontLeft", "FrontRight">>, samples_rate |-> 22050,
           data_type |-> "U16"]
NoFormat == [channels |-> <<>>, samples_rate |-> 0, data_type |-> "none"]

\* A format with more channels than a ChannelsCount (u16) can count.
ChannelsCountModulus == 65536
FmtWide == [channels |-> [i \in 1..(ChannelsCountModulus + 1) |-> "FrontLeft"],
            samples_rate |-> 44100, data_type |-> "F32"]

\* The formats the endpoint's backend accepts, and the formats a caller may pass
\* (one of them is not accepted by the backend).
SupportedFormats == {FmtF32, FmtI16}
Formats == SupportedFormats \cup {FmtU16}

VARIABLES
    endpointLive,   \* the device behind the Endpoint still exists
    created,        \* [Voices -> BOOLEAN]: Voice::new returned Ok for this slot
    newResult,      \* [Voices -> result of the last Voice::new on this slot]
    newFormat,      \* [Voices -> the format passed to the last Voice::new]
    vformat,        \* [Voices -> Format]: Voice.format
    implFormat,     \* [Voices -> Format]: the format the backend voice was built with
    vloop,          \* [Voices -> Loops]: the event loop the stream is registered with
    loopState,      \* [Loops -> "new" | "running" | "panicked"]
    loopBusy,       \* [Loops -> voice whose consumer runs on the loop thread, or 0]
    playing,        \* [Voices -> BOOLEAN]: the backend's playback flag
    lastCall,       \* [Voices -> "none" | "play" | "pause"]: last control call made
    cycles,         \* [Voices -> number of fill cycles the device has produced]
    pending,        \* [Voices -> Seq of fill-cycle tags ready, not yet delivered]
    implInflight,   \* [Voices -> BOOLEAN]: backend has a buffer out, not yet finished
    handles,        \* [Voices -> [tag -> Buffer]]: the live Buffer handles
    delivered,      \* [Voices -> Seq of [seq, variant]]: items the stream yielded
    commits,        \* [Voices -> [Tags -> number of finish() calls]]
    devQueue,       \* [Voices -> Seq of committed tags, in commit order]
    pos,            \* [Voices -> number of committed buffers the device consumed]
    wake,           \* [Voices -> BOOLEAN]: a wake-up is registered for the stream
    lastRead,       \* outcome of the last read through a Buffer, "none" before it
    formatsResult,  \* result of the last get_supported_formats_list()
    space,          \* [Voices -> samples the device has room for]
    lastLen,        \* the last UnknownTypeBuffer::len(): of which buffer, and what
    lastInfo        \* what the last get_channels/get_samples_rate/get_samples_format gave

vars == <<endpointLive, created, newResult, vformat, implFormat, vloop, loopState,
          loopBusy, playing, lastCall, cycles, pending, implInflight, handles,
          delivered, commits, devQueue, pos, wake, lastRead, newFormat,
          formatsResult, space, lastLen, lastInfo>>

voiceVars == <<created, newResult, newFormat, vformat, implFormat, vloop>>
auxVars == <<formatsResult, space, lastLen, lastInfo>>
ctlVars == <<playing, lastCall>>
bufVars == <<handles, commits, devQueue, implInflight>>

NoHandles == [t \in {} |-> 0]

Init ==
    /\ endpointLive = TRUE
    /\ created = [v \in Voices |-> FALSE]
    /\ newResult = [v \in Voices |-> "none"]
    /\ vformat = [v \in Voices |-> NoFormat]
    /\ implFormat = [v \in Voices |-> NoFormat]
    /\ vloop = [v \in Voices |-> NoLoop]
    /\ loopState = [l \in Loops |-> "new"]
    /\ loopBusy = [l \in Loops |-> NoVoice]
    /\ playing = [v \in Voices |-> FALSE]
    /\ lastCall = [v \in Voices |-> "none"]
    /\ cycles = [v \in Voices |-> 0]
    /\ pending = [v \in Voices |-> <<>>]
    /\ implInflight = [v \in Voices |-> FALSE]
    /\ handles = [v \in Voices |-> NoHandles]
    /\ delivered = [v \in Voices |-> <<>>]
    /\ commits = [v \in Voices |-> [t \in Tags |-> 0]]
    /\ devQueue = [v \in Voices |-> <<>>]
    /\ pos = [v \in Voices |-> 0]
    /\ wake = [v \in Voices |-> FALSE]
    /\ lastRead = "none"
    /\ newFormat = [v \in Voices |-> NoFormat]
    /\ formatsResult = [kind |-> "none", formats |-> <<>>]
    /\ space = [v \in Voices |-> MaxBufLen]
    /\ lastLen = [voice |-> NoVoice, tag |-> 0, panicked |-> FALSE, len |-> 0]
    /\ lastInfo = [voice |-> NoVoice, channels |-> 0, samples_rate |-> 0,
                   data_type |-> "none"]

\* ------------------------------------------------------------ backend (cpal_impl)
\* The formats the backend builds a voice with: the ones the endpoint lists, and the
\* listed layout carried by a longer channel list, of which nothing on the way to
\* the backend bounds the length.
AcceptedFormats == SupportedFormats \cup {FmtWide}

\* cpal_impl::Voice::new: the construction result for a format on the endpoint.
impl_Voice_new(f) ==
    IF ~endpointLive THEN "DeviceNotAvailable"
    ELSE IF f \notin AcceptedFormats THEN "FormatNotSupported"
    ELSE "Ok"

\* A backend that also advertises a format its voices cannot be built with.
impl_get_supported_formats_list_extra ==
    IF endpointLive
    THEN [kind |-> "Ok", formats |-> <<FmtF32, FmtI16, FmtU16>>]
    ELSE [kind |-> "DeviceNotAvailable", formats |-> <<>>]

\* cpal_impl::Endpoint::get_supported_formats_list: the formats in the backend's
\* order of preference, or DeviceNotAvailable once the device is gone.
impl_get_supported_formats_list ==
    IF endpointLive
    THEN [kind |-> "Ok", formats |-> <<FmtF32, FmtI16>>]
    ELSE [kind |-> "DeviceNotAvailable", formats |-> <<>>]

\* cpal_impl::Voice::play / pause: flip the playback flag.
impl_play(v) == playing' = [playing EXCEPT ![v] = TRUE]
impl_pause(v) == playing' = [playing EXCEPT ![v] = FALSE]

\* What a poll that yields nothing carries.
NoItem == [seq |-> 0, variant |-> "none", len |-> 0]

\* A backend whose stream yields the newest ready fill cycle first.
impl_poll_newest(v) ==
    IF implInflight[v] \/ pending[v] = <<>>
    THEN [ready |-> FALSE, item |-> NoItem, rest |-> pending[v]]
    ELSE [ready |-> TRUE,
          item |-> [seq |-> pending[v][Len(pending[v])],
                    variant |-> implFormat[v].data_type, len |-> space[v]],
          rest |-> SubSeq(pending[v], 1, Len(pending[v]) - 1)]

\* cpal_impl::SamplesStream::poll: whether the backend yields an item, the item, and
\* the fill cycles left waiting.  The next fill cycle is withheld while the previous
\* buffer of the voice is unfinished; cycles are yielded oldest first.  The buffer
\* has the length the device has room for.
impl_poll(v) ==
    IF implInflight[v] \/ pending[v] = <<>>
    THEN [ready |-> FALSE, item |-> NoItem, rest |-> pending[v]]
    ELSE [ready |-> TRUE,
          item |-> [seq |-> Head(pending[v]), variant |-> implFormat[v].data_type,
                    len |-> space[v]],
          rest |-> Tail(pending[v])]

\* cpal_impl::Buffer::finish: the commit of a buffer to the device.
impl_finish(v, t) ==
    /\ commits' = [commits EXCEPT ![v][t] = @ + 1]
    /\ devQueue' = [devQueue EXCEPT ![v] = Append(@, t)]
    /\ implInflight' = [implInflight EXCEPT ![v] = FALSE]

\* A loop thread that polls streams while a consumer it called has not returned.
impl_loop_idle_always(l) == TRUE

\* The thread in cpal_impl::EventLoop::run: it is free to poll a stream when no
\* consumer it called is still running.
impl_loop_idle(l) == loopBusy[l] = NoVoice

\* The device disappears (unplugged).
Disconnect ==
    /\ endpointLive
    /\ endpointLive' = FALSE
    /\ UNCHANGED <<voiceVars, loopState, loopBusy, ctlVars, cycles, pending,
                   bufVars, delivered, pos, wake, lastRead>>
    /\ UNCHANGED auxVars

\* The fill cycles produced so far, over all voices.
RECURSIVE SumCycles(_)
SumCycles(V) ==
    IF V = {} THEN 0
    ELSE LET x == CHOOSE y \in V : TRUE IN cycles[x] + SumCycles(V \ {x})

\* The device has room for data: a new fill cycle becomes ready for the voice.
DeviceNotify(v) ==
    /\ created[v]
    /\ SumCycles(Voices) < MaxCycles
    /\ Len(pending[v]) < MaxPending
    /\ cycles' = [cycles EXCEPT ![v] = @ + 1]
    /\ pending' = [pending EXCEPT ![v] = Append(@, cycles[v] + 1)]
    /\ wake' = [wake EXCEPT ![v] = FALSE]
    /\ UNCHANGED <<endpointLive, voiceVars, loopState, loopBusy, ctlVars,
                   bufVars, delivered, pos, lastRead>>
    /\ UNCHANGED auxVars

\* The device plays one committed buffer; it consumes only while playing.
DeviceConsume(v) ==
    /\ created[v]
    /\ playing[v]
    /\ pos[v] < Len(devQueue[v])
    /\ pos' = [pos EXCEPT ![v] = @ + 1]
    /\ UNCHANGED <<endpointLive, voiceVars, loopState, loopBusy, ctlVars, cycles,
                   pending, bufVars, delivered, wake, lastRead>>
    /\ UNCHANGED auxVars

\* ------------------------------------------------------------------ src/lib.rs
\* A Voice::new that builds the voice whatever the backend answered.
Voice_new_unchecked(v, f, l) ==
    LET r == impl_Voice_new(f) IN
    /\ newResult' = [newResult EXCEPT ![v] = r]
    /\ newFormat' = [newFormat EXCEPT ![v] = f]
    /\ created' = [created EXCEPT ![v] = TRUE]
    /\ vformat' = [vformat EXCEPT ![v] = f]
    /\ implFormat' = [implFormat EXCEPT ![v] = f]
    /\ vloop' = [vloop EXCEPT ![v] = l]

\* A Voice::new that keeps the endpoint's preferred format instead of the caller's.
Voice_new_preferred(v, f, l) ==
    LET r == impl_Voice_new(f) IN
    /\ newResult' = [newResult EXCEPT ![v] = r]
    /\ newFormat' = [newFormat EXCEPT ![v] = f]
    /\ IF r = "Ok"
       THEN /\ created' = [created EXCEPT ![v] = TRUE]
            /\ vformat' = [vformat EXCEPT ![v] = FmtF32]
            /\ implFormat' = [implFormat EXCEPT ![v] = f]
            /\ vloop' = [vloop EXCEPT ![v] = l]
       ELSE UNCHANGED <<created, vformat, implFormat, vloop>>

\* Voice::new: try!(cpal_impl::Voice::new(..)); Voice { voice, format: format.clone() }
Voice_new(v, f, l) ==
    LET r == impl_Voice_new(f) IN
    /\ newResult' = [newResult EXCEPT ![v] = r]
    /\ newFormat' = [newFormat EXCEPT ![v] = f]
    /\ IF r = "Ok"
       THEN /\ created' = [created EXCEPT ![v] = TRUE]
            /\ vformat' = [vformat EXCEPT ![v] = f]
            /\ implFormat' = [implFormat EXCEPT ![v] = f]
            /\ vloop' = [vloop EXCEPT ![v] = l]
       ELSE UNCHANGED <<created, vformat, implFormat, vloop>>

VoiceNew(v, f, l) ==
    /\ ~created[v]
    /\ Voice_new(v, f, l)
    /\ UNCHANGED <<endpointLive, loopState, loopBusy, ctlVars, cycles, pending,
                   bufVars, delivered, pos, wake, lastRead>>
    /\ UNCHANGED auxVars

\* EventLoop::run: the calling thread starts driving the loop.  The application
\* runs a loop that has a stream to drive; further streams may register later.
EventLoopRun(l) ==
    /\ loopState[l] = "new"
    /\ \E v \in Voices : created[v] /\ vloop[v] = l
    /\ loopState' = [loopState EXCEPT ![l] = "running"]
    /\ UNCHANGED <<endpointLive, voiceVars, loopBusy, ctlVars, cycles, pending,
                   bufVars, delivered, pos, wake, lastRead>>
    /\ UNCHANGED auxVars

\* A play() that sends the pause command, a pause() that sends the play command,
\* a pause() that toggles, and a pause() that stops every voice.
Voice_play_pauses(v) == impl_pause(v)
Voice_pause_plays(v) == impl_play(v)
Voice_pause_toggles(v) == IF playing[v] THEN impl_pause(v) ELSE impl_play(v)
Voice_pause_all(v) == playing' = [u \in Voices |-> FALSE]

\* Voice::play: self.voice.play()
Voice_play(v) == impl_play(v)

\* Voice::pause: self.voice.pause()
Voice_pause(v) == impl_pause(v)

Play(v) ==
    /\ created[v]
    /\ Voice_play(v)
    /\ lastCall' = [lastCall EXCEPT ![v] = "play"]
    /\ UNCHANGED <<endpointLive, voiceVars, loopState, loopBusy, cycles, pending,
                   bufVars, delivered, pos, wake, lastRead>>
    /\ UNCHANGED auxVars

Pause(v) ==
    /\ created[v]
    /\ Voice_pause(v)
    /\ lastCall' = [lastCall EXCEPT ![v] = "pause"]
    /\ UNCHANGED <<endpointLive, voiceVars, loopState, loopBusy, cycles, pending,
                   bufVars, delivered, pos, wake, lastRead>>
    /\ UNCHANGED auxVars

\* A Buffer as handed out by the stream: Buffer { target: Some(..) }
NewBuffer(item) ==
    [variant |-> item.variant, target |-> "Some", writes |-> 0, len |-> item.len]

\* A poll that keeps the loop thread until a buffer is ready.
SamplesStream_poll_blocks(v) ==
    IF impl_poll(v).ready
    THEN /\ pending' = [pending EXCEPT ![v] = impl_poll(v).rest]
         /\ implInflight' = [implInflight EXCEPT ![v] = TRUE]
         /\ delivered' = [delivered EXCEPT ![v] = Append(@, impl_poll(v).item)]
         /\ handles' = [handles EXCEPT ![v] =
                (impl_poll(v).item.seq :> NewBuffer(impl_poll(v).item)) @@ @]
         /\ loopBusy' = [loopBusy EXCEPT ![vloop[v]] = v]
         /\ UNCHANGED wake
    ELSE /\ loopBusy' = [loopBusy EXCEPT ![vloop[v]] = v]
         /\ UNCHANGED <<pending, implInflight, delivered, handles, wake>>

\* SamplesStream::poll: self.0.poll(task)
SamplesStream_poll(v) ==
    IF impl_poll(v).ready
    THEN /\ pending' = [pending EXCEPT ![v] = impl_poll(v).rest]
         /\ implInflight' = [implInflight EXCEPT ![v] = TRUE]
         /\ delivered' = [delivered EXCEPT ![v] = Append(@, impl_poll(v).item)]
         /\ handles' = [handles EXCEPT ![v] =
                (impl_poll(v).item.seq :> NewBuffer(impl_poll(v).item)) @@ @]
         /\ loopBusy' = [loopBusy EXCEPT ![vloop[v]] = v]
         /\ UNCHANGED wake
    ELSE /\ wake' = [wake EXCEPT ![v] = TRUE]
         /\ UNCHANGED <<pending, implInflight, delivered, handles, loopBusy>>

\* The loop thread polls the stream of a voice registered with it.
Poll(v) ==
    /\ created[v]
    /\ loopState[vloop[v]] = "running"
    /\ impl_loop_idle(vloop[v])
    /\ SamplesStream_poll(v)
    /\ UNCHANGED <<endpointLive, voiceVars, loopState, ctlVars, cycles, commits,
                   devQueue, pos, lastRead>>
    /\ UNCHANGED auxVars

\* The handles of a voice without the handle of tag t (the handle's memory is gone).
Without(v, t) == [u \in DOMAIN handles[v] \ {t} |-> handles[v][u]]

\* A deref_mut that takes the target out of the buffer, as drop does.
Buffer_deref_mut_takes(v, t) ==
    /\ handles[v][t].target = "Some"
    /\ handles' = [handles EXCEPT ![v][t].writes = @ + 1, ![v][t].target = "None"]
    /\ UNCHANGED <<commits, devQueue, implInflight>>

\* A deref_mut that commits what was written at once.
Buffer_deref_mut_commits(v, t) ==
    /\ handles[v][t].target = "Some"
    /\ handles' = [handles EXCEPT ![v][t].writes = @ + 1]
    /\ impl_finish(v, t)

\* DerefMut::deref_mut: self.target.as_mut().unwrap().get_buffer()
Buffer_deref_mut(v, t) ==
    /\ handles[v][t].target = "Some"
    /\ handles' = [handles EXCEPT ![v][t].writes = @ + 1]
    /\ UNCHANGED <<commits, devQueue, implInflight>>

\* A drop that takes the target and forgets to finish it.
Buffer_drop_forgets(v, t) ==
    /\ handles[v][t].target = "Some"
    /\ handles' = [handles EXCEPT ![v] = Without(v, t)]
    /\ UNCHANGED <<commits, devQueue, implInflight>>

\* Drop::drop: self.target.take().unwrap().finish()
Buffer_drop(v, t) ==
    /\ handles[v][t].target = "Some"
    /\ handles' = [handles EXCEPT ![v] = Without(v, t)]
    /\ impl_finish(v, t)

\* A deref that hands back what was written, once something was written.
Buffer_deref_written(b) == IF b.writes > 0 THEN "data" ELSE "panic"

\* Deref::deref: panic!("It is forbidden to read from the audio buffer")
Buffer_deref(b) == "panic"

\* The consumer leaves the loop thread once it has released the buffer.
LeaveLoop(v) ==
    loopBusy' = IF loopBusy[vloop[v]] = v
                THEN [loopBusy EXCEPT ![vloop[v]] = NoVoice]
                ELSE loopBusy

\* The consumer writes samples through the buffer.
Write(v, t) ==
    /\ t \in DOMAIN handles[v]
    /\ handles[v][t].writes < MaxWrites
    /\ Buffer_deref_mut(v, t)
    /\ UNCHANGED <<endpointLive, voiceVars, loopState, loopBusy, ctlVars, cycles,
                   pending, delivered, pos, wake, lastRead>>
    /\ UNCHANGED auxVars

\* The consumer lets the buffer go out of scope.
Drop(v, t) ==
    /\ t \in DOMAIN handles[v]
    /\ Buffer_drop(v, t)
    /\ LeaveLoop(v)
    /\ UNCHANGED <<endpointLive, voiceVars, loopState, ctlVars, cycles, pending,
                   delivered, pos, wake, lastRead>>
    /\ UNCHANGED auxVars

\* The consumer reads through the buffer: the panic unwinds the consumer's frame,
\* which drops the buffer; a panic on the loop thread ends that loop.
Read(v, t) ==
    /\ t \in DOMAIN handles[v]
    /\ lastRead' = Buffer_deref(handles[v][t])
    /\ IF Buffer_deref(handles[v][t]) = "panic"
       THEN /\ Buffer_drop(v, t)
            /\ loopState' = IF loopBusy[vloop[v]] = v
                            THEN [loopState EXCEPT ![vloop[v]] = "panicked"]
                            ELSE loopState
            /\ LeaveLoop(v)
       ELSE UNCHANGED <<bufVars, loopState, loopBusy>>
    /\ UNCHANGED <<endpointLive, voiceVars, ctlVars, cycles, pending, delivered,
                   pos, wake>>
    /\ UNCHANGED auxVars

\* The consumer returns to the loop while keeping the buffer.
Retain(v) ==
    /\ created[v]
    /\ loopBusy[vloop[v]] = v
    /\ DOMAIN handles[v] # {}
    /\ loopBusy' = [loopBusy EXCEPT ![vloop[v]] = NoVoice]
    /\ UNCHANGED <<endpointLive, voiceVars, loopState, ctlVars, cycles, pending,
                   bufVars, delivered, pos, wake, lastRead>>
    /\ UNCHANGED auxVars

\* An enumeration that answers a failure with an empty list of formats.
Endpoint_get_supported_formats_list_empty ==
    [kind |-> "Ok", formats |-> impl_get_supported_formats_list.formats]

\* Endpoint::get_supported_formats_list:
\* Ok(SupportedFormatsIterator(try!(self.0.get_supported_formats_list())))
Endpoint_get_supported_formats_list ==
    IF impl_get_supported_formats_list.kind = "Ok"
    THEN [kind |-> "Ok", formats |-> impl_get_supported_formats_list.formats]
    ELSE [kind |-> impl_get_supported_formats_list.kind, formats |-> <<>>]

\* The application asks the endpoint for its formats.
GetFormats ==
    /\ formatsResult' = Endpoint_get_supported_formats_list
    /\ UNCHANGED <<endpointLive, voiceVars, loopState, loopBusy, ctlVars, cycles,
                   pending, bufVars, delivered, pos, wake, lastRead, space,
                   lastLen, lastInfo>>

\* Voice::get_channels: self.format().channels.len() as ChannelsCount
Voice_get_channels(v) == Len(vformat[v].channels) % ChannelsCountModulus

\* Voice::get_samples_rate: self.format().samples_rate
Voice_get_samples_rate(v) == vformat[v].samples_rate

\* Voice::get_samples_format: self.format().data_type
Voice_get_samples_format(v) == vformat[v].data_type

\* The application asks a voice for its channels, samples rate and samples format.
GetInfo(v) ==
    /\ created[v]
    /\ lastInfo' = [voice |-> v, channels |-> Voice_get_channels(v),
                    samples_rate |-> Voice_get_samples_rate(v),
                    data_type |-> Voice_get_samples_format(v)]
    /\ UNCHANGED <<endpointLive, voiceVars, loopState, loopBusy, ctlVars, cycles,
                   pending, bufVars, delivered, pos, wake, lastRead, formatsResult,
                   space, lastLen>>

\* What unwrap() of the target gives: the target's length, or a panic when the
\* target was taken.
Target_len(b) ==
    IF b.target = "Some" THEN [panicked |-> FALSE, len |-> b.len]
    ELSE [panicked |-> TRUE, len |-> 0]

\* A len() whose f32 arm gives the size in bytes.
UnknownTypeBuffer_len_bytes(b) ==
    CASE b.variant = "U16" -> Target_len(b)
      [] b.variant = "I16" -> Target_len(b)
      [] b.variant = "F32" -> [Target_len(b) EXCEPT !.len = @ * 4]

\* UnknownTypeBuffer::len: match on the variant, buf.target.as_ref().unwrap().len()
UnknownTypeBuffer_len(b) ==
    CASE b.variant = "U16" -> Target_len(b)
      [] b.variant = "I16" -> Target_len(b)
      [] b.variant = "F32" -> Target_len(b)

\* The consumer asks a buffer it holds for its length.
QueryLen(v, t) ==
    /\ t \in DOMAIN handles[v]
    /\ lastLen' = [voice |-> v, tag |-> t,
                   panicked |-> UnknownTypeBuffer_len(handles[v][t]).panicked,
                   len |-> UnknownTypeBuffer_len(handles[v][t]).len]
    /\ UNCHANGED <<endpointLive, voiceVars, loopState, loopBusy, ctlVars, cycles,
                   pending, bufVars, delivered, pos, wake, lastRead, formatsResult,
                   space, lastInfo>>

\* The room the device has for the next buffer of a voice.  The first buffer of a
\* voice finds the device's whole buffer free; later ones find what the device has
\* played by then, at least one frame and at most the whole buffer.
DeviceSpace(v, n) ==
    /\ created[v]
    /\ delivered[v] # <<>>
    /\ space[v] # n
    /\ space' = [space EXCEPT ![v] = n]
    /\ UNCHANGED <<endpointLive, voiceVars, loopState, loopBusy, ctlVars, cycles,
                   pending, bufVars, delivered, pos, wake, lastRead, formatsResult,
                   lastLen, lastInfo>>

\* The loops are interchangeable: the first voice registers with the first loop,
\* the others with any loop.
LoopChoices(v) == IF v = 1 THEN {1} ELSE Loops

Next ==
    \/ Disconnect
    \/ \E v \in Voices, f \in Formats : \E l \in LoopChoices(v) : VoiceNew(v, f, l)
    \/ \E l \in Loops : EventLoopRun(l)
    \/ \E v \in Voices : DeviceNotify(v)
    \/ \E v \in Voices : DeviceConsume(v)
    \/ \E v \in Voices : Play(v)
    \/ \E v \in Voices : Pause(v)
    \/ \E v \in Voices : Poll(v)
    \/ \E v \in Voices, t \in Tags : Write(v, t)
    \/ \E v \in Voices, t \in Tags : Drop(v, t)
    \/ \E v \in Voices, t \in Tags : Read(v, t)
    \/ \E v \in Voices : Retain(v)

Spec == Init /\ [][Next]_vars

\* Enumeration, construction and control of voices, with every format a caller may
\* pass, the over-wide one included; no buffer is delivered.
EnumFormats == Formats \cup {FmtWide}

NextEnum ==
    \/ Disconnect
    \/ GetFormats
    \/ \E v \in Voices, f \in EnumFormats : \E l \in LoopChoices(v) : VoiceNew(v, f, l)
    \/ \E v \in Voices : GetInfo(v)

SpecEnum == Init /\ [][NextEnum]_vars

\* The buffer protocol with the lengths of the buffers: the device's room varies
\* from cycle to cycle and the consumer asks each buffer for its length.
NextLen ==
    \/ \E v \in Voices, f \in SupportedFormats :
          \E l \in LoopChoices(v) : VoiceNew(v, f, l)
    \/ \E l \in Loops : EventLoopRun(l)
    \/ \E v \in Voices : DeviceNotify(v)
    \/ \E v \in Voices, n \in 1..MaxBufLen : DeviceSpace(v, n)
    \/ \E v \in Voices : Poll(v)
    \/ \E v \in Voices, t \in Tags : QueryLen(v, t)
    \/ \E v \in Voices, t \in Tags : Write(v, t)
    \/ \E v \in Voices, t \in Tags : Drop(v, t)

SpecLen == Init /\ [][NextLen]_vars

\* The loop threads keep polling and every consumer releases the buffer it was
\* handed, on the loop thread or after returning to it.
NextLive ==
    \/ \E v \in Voices, f \in SupportedFormats :
          \E l \in LoopChoices(v) : VoiceNew(v, f, l)
    \/ \E l \in Loops : EventLoopRun(l)
    \/ \E v \in Voices : DeviceNotify(v)
    \/ \E v \in Voices : Poll(v)
    \/ \E v \in Voices, t \in Tags : Drop(v, t)
    \/ \E v \in Voices : Retain(v)

SpecLive ==
    /\ Init /\ [][NextLive]_vars
    /\ \A v \in Voices : WF_vars(Poll(v))
    /\ \A v \in Voices : \A t \in Tags : WF_vars(Drop(v, t))

\* ------------------------------------------------------------------ properties
\* The fill cycles of a voice that its stream has delivered.
DeliveredTags(v) == {delivered[v][i].seq : i \in DOMAIN delivered[v]}

\* A delivered buffer whose handle the consumer no longer has.
Released(v, t) == t \in DeliveredTags(v) /\ t \notin DOMAIN handles[v]

\* C1: a delivered buffer has no commit while its handle is held and exactly one
\* once it is released; a buffer never delivered has none.
C1_CommitCount ==
    \A v \in Voices, t \in Tags :
        commits[v][t] = IF Released(v, t) THEN 1 ELSE 0

\* C1: a commit happens only in a step that releases the handle, and a step that
\* writes through a buffer leaves every commit count as it was.
C1_CommitStep ==
    \A v \in Voices, t \in Tags :
        /\ commits'[v][t] # commits[v][t] =>
              t \in DOMAIN handles[v] /\ t \notin DOMAIN handles'[v]
        /\ (/\ t \in DOMAIN handles[v]
            /\ t \in DOMAIN handles'[v]
            /\ handles'[v][t].writes # handles[v][t].writes) => commits' = commits

\* C1: exactly one commit per delivered buffer, at its release, never at a write.
C1_OneCommitAtRelease == []C1_CommitCount /\ [][C1_CommitStep]_vars

\* C1 witness: a voice whose first buffer was released and committed once, and
\* whose second buffer was written MaxWrites times and is not committed.
C1_Witness ==
    \E v \in Voices :
        /\ Released(v, 1) /\ commits[v][1] = 1
        /\ 2 \in DOMAIN handles[v] /\ handles[v][2].writes = MaxWrites
        /\ commits[v][2] = 0

\* C2: every step in which a buffer leaves the consumer, by a plain release or by
\* the unwinding of a panicking read, commits that buffer, for the first time.
C2_ExitStep ==
    \A v \in Voices, t \in Tags :
        /\ (t \in DOMAIN handles[v] /\ t \notin DOMAIN handles'[v]) =>
              commits[v][t] = 0 /\ commits'[v][t] = 1
        /\ (t \in DOMAIN handles[v] /\ lastRead' = "panic" /\ Read(v, t)) =>
              t \notin DOMAIN handles'[v] /\ commits'[v][t] = 1

\* C2: a buffer the consumer has left is committed, on every exit path.
C2_CommittedOnEveryExit ==
    /\ [](\A v \in Voices, t \in Tags : Released(v, t) => commits[v][t] = 1)
    /\ [][C2_ExitStep]_vars

\* C2 witness: a read panicked on the loop thread and the buffer of that voice is
\* committed once.
C2_Witness ==
    \E v \in Voices :
        /\ lastRead = "panic"
        /\ created[v] /\ loopState[vloop[v]] = "panicked"
        /\ Released(v, 1) /\ commits[v][1] = 1

\* C3: a voice has at most one buffer delivered and not yet released.
C3_OneInFlight ==
    \A v \in Voices : Cardinality(DOMAIN handles[v]) <= 1

\* C3 witness: the consumer kept a buffer and returned to the loop; a further fill
\* cycle is ready, the stream was polled again and answered not-ready.
C3_Witness ==
    \E v \in Voices :
        /\ DOMAIN handles[v] = {1}
        /\ loopBusy[vloop[v]] = NoVoice
        /\ loopState[vloop[v]] = "running"
        /\ pending[v] # <<>>
        /\ wake[v]

C5_VariantMatchesFormat ==
    \A v \in Voices :
        /\ \A i \in DOMAIN delivered[v] :
              delivered[v][i].variant = vformat[v].data_type
        /\ \A t \in DOMAIN handles[v] :
              handles[v][t].variant = vformat[v].data_type

\* C5 witness: a voice built with the I16 format received a buffer and was paused
\* after playing part of its data.
C5_Witness ==
    \E v \in Voices :
        /\ vformat[v] = FmtI16
        /\ Len(delivered[v]) >= 1
        /\ lastCall[v] = "pause" /\ pos[v] >= 1

\* C6: a read through a buffer ends in a panic, for every buffer the consumer can
\* hold and for every read that was made.
C6_ReadPanics ==
    /\ lastRead \in {"none", "panic"}
    /\ \A v \in Voices : \A t \in DOMAIN handles[v] :
          Buffer_deref(handles[v][t]) = "panic"

\* C6 witness: a read was made, and a buffer that was written to is held.
C6_Witness ==
    /\ lastRead = "panic"
    /\ \E v \in Voices : \E t \in DOMAIN handles[v] : handles[v][t].writes >= 1

\* C7: a delivered buffer without a commit is held, with its target; a committed
\* buffer is held by nobody, and neither a write nor a release of it can happen.
C7_HeldUntilCommit ==
    \A v \in Voices : \A t \in DeliveredTags(v) :
        /\ commits[v][t] = 0 =>
              t \in DOMAIN handles[v] /\ handles[v][t].target = "Some"
        /\ commits[v][t] >= 1 =>
              /\ t \notin DOMAIN handles[v]
              /\ ~ENABLED Write(v, t)
              /\ ~ENABLED Drop(v, t)
              /\ ~ENABLED Read(v, t)

\* C7 witness: a voice with a committed buffer and a held, uncommitted one.
C7_Witness ==
    \E v \in Voices :
        /\ commits[v][1] = 1 /\ 1 \notin DOMAIN handles[v]
        /\ commits[v][2] = 0 /\ 2 \in DOMAIN handles[v]

\* C8: a voice is Paused until play() is called, and after any calls its playback
\* state is the one the last call set; play() and pause() can always be called.
C8_LastCallDecides ==
    \A v \in Voices :
        /\ playing[v] = (lastCall[v] = "play")
        /\ created[v] => ENABLED Play(v) /\ ENABLED Pause(v)

\* C8 witness: a voice whose last call was pause(), with no buffer ever written.
C8_Witness ==
    \E v \in Voices :
        /\ created[v] /\ lastCall[v] = "pause" /\ ~playing[v]
        /\ cycles[v] = 0 /\ delivered[v] = <<>>

\* What can be observed of a voice.
Observable(v) ==
    <<playing[v], pos[v], handles[v], pending[v], devQueue[v], delivered[v],
      commits[v], implInflight[v]>>

\* C9: a pause() on a paused voice and a play() on a playing voice change nothing
\* that can be observed of any voice.
C9_IdempotentStep ==
    \A v \in Voices :
        /\ (lastCall[v] # "play" /\ Pause(v)) =>
              \A u \in Voices : Observable(u)' = Observable(u)
        /\ (lastCall[v] = "play" /\ Play(v)) =>
              \A u \in Voices : Observable(u)' = Observable(u)

C9_Idempotent == [][C9_IdempotentStep]_vars

\* C9 witness: a paused voice with data played, data left to play and a buffer in
\* flight.
C9_Witness ==
    \E v \in Voices :
        /\ lastCall[v] = "pause" /\ ~playing[v]
        /\ pos[v] >= 1 /\ DOMAIN handles[v] # {}

\* C10: the playback position moves only while the last call was play(), one
\* committed buffer at a time and never past the committed data; a step that
\* changes the last call or the playback flag (a pause() or a play()) leaves the
\* position and the committed data as they are, and committed data is never
\* taken back.
C10_PositionStep ==
    \A v \in Voices :
        /\ pos'[v] # pos[v] =>
              /\ lastCall[v] = "play"
              /\ pos'[v] = pos[v] + 1
              /\ pos'[v] <= Len(devQueue[v])
        /\ (lastCall'[v] # lastCall[v] \/ playing'[v] # playing[v]) =>
              pos' = pos /\ devQueue' = devQueue
        /\ Len(devQueue'[v]) >= Len(devQueue[v])
        /\ SubSeq(devQueue'[v], 1, Len(devQueue[v])) = devQueue[v]

C10_PausePreservesPosition == [][C10_PositionStep]_vars

\* C10 witness: a voice paused in the middle of its committed data.
C10_Witness ==
    \E v \in Voices :
        /\ lastCall[v] = "pause"
        /\ pos[v] = 1 /\ Len(devQueue[v]) = 2

\* The elements of a sequence.
Range(q) == {q[i] : i \in DOMAIN q}

\* C11: a Voice::new that was given a format the endpoint's enumeration yielded did
\* not fail with FormatNotSupported.
C11_YieldedFormatsAccepted ==
    \A v \in Voices :
        (/\ formatsResult.kind = "Ok"
         /\ newFormat[v] \in Range(formatsResult.formats)) =>
            newResult[v] # "FormatNotSupported"

\* C11 witness: the enumeration yielded formats, one voice was built with the
\* second of them and another construction was refused for an unlisted format.
C11_Witness ==
    /\ formatsResult.kind = "Ok" /\ endpointLive
    /\ \E v, u \in Voices :
          /\ newFormat[v] = formatsResult.formats[2] /\ newResult[v] = "Ok"
          /\ newResult[u] = "FormatNotSupported"

\* C12: a failed Voice::new leaves no voice, no stream registered with a loop and
\* no fill cycle, buffer or delivery; DeviceNotAvailable is only met with the
\* device gone, FormatNotSupported only for a format the backend does not accept.
C12_FailedLeavesNothing ==
    \A v \in Voices :
        /\ created[v] = (newResult[v] = "Ok")
        /\ newResult[v] = "DeviceNotAvailable" => ~endpointLive
        /\ newResult[v] = "FormatNotSupported" => newFormat[v] \notin AcceptedFormats
        /\ newResult[v] \in {"DeviceNotAvailable", "FormatNotSupported"} =>
              /\ vformat[v] = NoFormat /\ vloop[v] = NoLoop
              /\ cycles[v] = 0 /\ pending[v] = <<>>
              /\ delivered[v] = <<>> /\ DOMAIN handles[v] = {}

\* C12: a Voice::new made with the device gone gives DeviceNotAvailable, and one
\* made with the device there and a format the backend rejects gives
\* FormatNotSupported.
C12_FailureStep ==
    \A v \in Voices :
        (newResult'[v] # newResult[v] \/ newFormat'[v] # newFormat[v]) =>
            /\ ~endpointLive => newResult'[v] = "DeviceNotAvailable"
            /\ (endpointLive /\ newFormat'[v] \notin AcceptedFormats) =>
                  newResult'[v] = "FormatNotSupported"

C12_CreationErrors == []C12_FailedLeavesNothing /\ [][C12_FailureStep]_vars

\* C12 witness: one construction failed for the format, then the device went and
\* another failed for the device.
C12_Witness ==
    \E v, u \in Voices :
        /\ newResult[v] = "FormatNotSupported"
        /\ newResult[u] = "DeviceNotAvailable"

\* C13: a voice's format is the one its Voice::new was called with.
C13_FormatIsTheCallers ==
    \A v \in Voices : created[v] => vformat[v] = newFormat[v]

\* C13: no step changes the format of a voice that exists.
C13_FormatStep ==
    \A v \in Voices : created[v] => vformat'[v] = vformat[v]

C13_FormatKept == []C13_FormatIsTheCallers /\ [][C13_FormatStep]_vars

\* C13 witness: a voice built with the less preferred format, after a write and a
\* commit, a play() and a pause().
C13_Witness ==
    \E v \in Voices :
        /\ created[v] /\ vformat[v] = FmtI16
        /\ commits[v][1] = 1 /\ pos[v] = 1 /\ lastCall[v] = "pause"

\* C14: an enumeration made with the device gone answers DeviceNotAvailable, and an
\* enumeration that answers Ok yields formats.
C14_EnumerationStep ==
    (formatsResult' # formatsResult /\ ~endpointLive) =>
        formatsResult' = [kind |-> "DeviceNotAvailable", formats |-> <<>>]

C14_GoneDeviceReported ==
    /\ [](formatsResult.kind \in {"none", "Ok", "DeviceNotAvailable"})
    /\ [](formatsResult.kind = "Ok" => formatsResult.formats # <<>>)
    /\ [][C14_EnumerationStep]_vars

\* C14 witness: the device is gone and the enumeration answered DeviceNotAvailable.
C14_Witness ==
    ~endpointLive /\ formatsResult.kind = "DeviceNotAvailable"

\* The largest of a non-empty set of lengths.
MaxOf(S) == CHOOSE m \in S : \A x \in S : x <= m

\* C15: every buffer handed to a voice is a buffer of one of the three variants with
\* a length above zero, and from the second on no longer than the longest the voice
\* was handed before; a buffer shorter than the device's whole buffer is handed out
\* like any other.
C15_LengthsBounded ==
    \A v \in Voices : \A i \in DOMAIN delivered[v] :
        /\ delivered[v][i].variant \in {"U16", "I16", "F32"}
        /\ delivered[v][i].len > 0
        /\ i > 1 => delivered[v][i].len <=
                        MaxOf({delivered[v][j].len : j \in 1..(i - 1)})

\* C15: len() gives the length the buffer was handed out with, and does not fail.
C15_LenReported ==
    lastLen.voice # NoVoice =>
        /\ ~lastLen.panicked
        /\ \E i \in DOMAIN delivered[lastLen.voice] :
              /\ delivered[lastLen.voice][i].seq = lastLen.tag
              /\ delivered[lastLen.voice][i].len = lastLen.len

C16_NotReadyStep ==
    \A v \in Voices :
        (Poll(v) /\ ~impl_poll(v).ready) =>
            /\ wake'[v]
            /\ UNCHANGED <<loopBusy, delivered, handles, pending, implInflight>>

\* C16: on a running loop, a fill cycle that is ready for a voice is eventually
\* handed to the voice.
C16_EventuallyDelivered ==
    \A v \in Voices : \A t \in Tags :
        (created[v] /\ loopState[vloop[v]] = "running" /\ t \in Range(pending[v]))
            ~> (t \in DeliveredTags(v))

C16_PollContract == [][C16_NotReadyStep]_vars /\ C16_EventuallyDelivered

\* C16 witness: two voices on one loop were each handed a buffer, both buffers were
\* released, and a later poll of each found nothing and registered the wake-up.
C16_Witness ==
    /\ vloop[1] = vloop[2]
    /\ \A v \in Voices :
          /\ Len(delivered[v]) = 1 /\ commits[v][1] = 1
          /\ wake[v] /\ pending[v] = <<>>
    /\ \A l \in Loops : loopBusy[l] = NoVoice

\* A consumer called by the loop thread of voice a holds a buffer and has not
\* returned.
Stalled(a) == created[a] /\ loopBusy[vloop[a]] = a /\ DOMAIN handles[a] # {}

\* The stream of voice b is handed a buffer in this step.
Delivery(b) == Poll(b) /\ delivered'[b] # delivered[b]

\* C17: while the consumer of a voice stalls on its loop thread, no other voice of
\* that loop is polled, and a voice with a ready fill cycle on another running
\* loop whose thread is free can be handed its buffer.
C17_LoopIsolation ==
    \A a, b \in Voices :
        (Stalled(a) /\ b # a /\ created[b]) =>
            /\ vloop[b] = vloop[a] => ~ENABLED Poll(b)
            /\ (/\ vloop[b] # vloop[a]
                /\ loopState[vloop[b]] = "running" /\ loopBusy[vloop[b]] = NoVoice
                /\ pending[b] # <<>> /\ ~implInflight[b]) => ENABLED Delivery(b)

\* C17: a buffer is handed out only by a loop thread that is in no consumer.
C17_DeliveryStep ==
    \A b \in Voices :
        delivered'[b] # delivered[b] => loopBusy[vloop[b]] = NoVoice

C17_OneThreadPerLoop == []C17_LoopIsolation /\ [][C17_DeliveryStep]_vars

\* C17 witness: the consumer of voice 1 stalls with a buffer on the first loop, and
\* voice 2 on the second loop has been handed its buffer.
C17_Witness ==
    /\ Stalled(1) /\ vloop[2] # vloop[1] /\ Stalled(2)
    /\ cycles[1] = 1 /\ cycles[2] = 1

\* A voice's commits as the device received them hold no fill cycle twice.
NoDuplicate(q) == \A i, j \in DOMAIN q : q[i] = q[j] => i = j

\* C18: a play() or pause() of a voice changes nothing but that voice's playback
\* flag: formats, fill cycles, buffers and what was written to them, commits, the
\* order of delivery, the loops and the other voices stay as they were.
C18_ControlStep ==
    \A v \in Voices :
        (lastCall'[v] # lastCall[v] \/ playing'[v] # playing[v]) =>
            /\ UNCHANGED <<endpointLive, voiceVars, loopState, loopBusy, cycles,
                           pending, bufVars, delivered, pos, wake>>
            /\ \A u \in Voices \ {v} :
                  playing'[u] = playing[u] /\ lastCall'[u] = lastCall[u]

\* C18: whatever the interleaving, every released buffer reached the device once,
\* and no buffer still held reached it.
C18_CommitsExact ==
    \A v \in Voices :
        /\ NoDuplicate(devQueue[v])
        /\ Range(devQueue[v]) = DeliveredTags(v) \ DOMAIN handles[v]
        /\ \A t \in Tags : commits[v][t] = IF t \in Range(devQueue[v]) THEN 1 ELSE 0

C18_ControlOnlyFlag == []C18_CommitsExact /\ [][C18_ControlStep]_vars

\* C18 witness: the first buffer of a voice was committed and played, the voice was
\* paused, and its second buffer is held with a write in it while the other voice
\* plays.
C18_Witness ==
    \E v \in Voices, u \in Voices :
        /\ u # v /\ playing[u]
        /\ lastCall[v] = "pause" /\ pos[v] = 1 /\ commits[v][1] = 1
        /\ 2 \in DOMAIN handles[v] /\ handles[v][2].writes = 1

\* C19: what get_channels, get_samples_rate and get_samples_format gave is the
\* number of channels, the samples rate and the data type of the voice's format.
C19_GettersMatchFormat ==
    lastInfo.voice # NoVoice =>
        /\ lastInfo.channels = Len(vformat[lastInfo.voice].channels)
        /\ lastInfo.samples_rate = vformat[lastInfo.voice].samples_rate
        /\ lastInfo.data_type = vformat[lastInfo.voice].data_type

\* C20: a buffer that is held has its target, so len() and a write do not panic and
\* the release finds the target; it has not been committed, and no buffer is
\* committed twice.
C20_TargetPresent ==
    /\ ~lastLen.panicked
    /\ \A v \in Voices :
          /\ \A t \in Tags : commits[v][t] <= 1
          /\ \A t \in DOMAIN handles[v] :
                /\ handles[v][t].target = "Some"
                /\ ~UnknownTypeBuffer_len(handles[v][t]).panicked
                /\ commits[v][t] = 0

\* C20: a len() or a write leaves the buffer held, its target and its length as they
\* were and commits nothing; a release commits the buffer once.
C20_Step ==
    \A v \in Voices : \A t \in DOMAIN handles[v] :
        IF t \in DOMAIN handles'[v]
        THEN (lastLen' # lastLen \/ handles'[v][t].writes # handles[v][t].writes) =>
                /\ handles'[v][t].len = handles[v][t].len
                /\ handles'[v][t].target = "Some"
                /\ UNCHANGED <<commits, devQueue, implInflight>>
        ELSE commits'[v][t] = 1 /\ lastLen' = lastLen

C20_TargetHeld == []C20_TargetPresent /\ [][C20_Step]_vars

\* C20 witness: the first buffer of a voice was released, and its second buffer is
\* held after a len() and a write.
C20_Witness ==
    \E v \in Voices :
        /\ commits[v][1] = 1
        /\ 2 \in DOMAIN handles[v] /\ handles[v][2].writes = 1
        /\ lastLen.voice = v /\ lastLen.tag = 2

====
